---- MODULE Spec2Model ----
(***************************************************************************)
(* Model of the YIN pitch estimator of src/src/lib.rs.                     *)
(*                                                                         *)
(* Vectors (Vec<F>, &[F]) are functions on 0..len-1, as in the source.     *)
(* Floating-point values are modelled exactly: samples are small integers, *)
(* so every difference, square and running sum is an integer that the      *)
(* float type holds exactly, and a quotient is a pair <<num, den>> with    *)
(* den > 0.  A correctly rounded quotient of two small integers keeps the  *)
(* order and the equality of the exact quotients, which is all the code    *)
(* does with them (comparisons with `<`).  A frequency is a record with    *)
(* kind "finite", "inf" or "nan", as IEEE division produces them.          *)
(***************************************************************************)
EXTENDS Integers, Sequences, FiniteSets, TLC

\* ------------------------------------------------------------- bounds
\* Longest sample buffer drawn by Init.
MaxLen == 6
\* Longest vector drawn for the stand-alone cmndf / compute_diff_min calls.
MaxVec == 4
\* Largest raw difference value drawn for the stand-alone cmndf call.
MaxDiff == 2

\* Sample amplitudes drawn by Init.
Samples == {-1, 0, 1}
\* Thresholds drawn by Init: 0, 0.1 and 0.75.
Thresholds == {<<0, 1>>, <<1, 10>>, <<3, 4>>}
\* Frequencies drawn by Init: 0.5, 1, 1.5, 2, 4 and 7 Hz.
Freqs == {<<1, 2>>, <<1, 1>>, <<3, 2>>, <<2, 1>>, <<4, 1>>, <<7, 1>>}
\* Sample rates drawn by Init.
SampleRates == {0, 4, 6}
\* Normalized values drawn for the stand-alone compute_diff_min call:
\* 0, 0.5, 1 and 1.5.
NormVals == {<<0, 1>>, <<1, 2>>, <<1, 1>>, <<3, 2>>}

\* ------------------------------------------------------------ vectors
Min(a, b) == IF a <= b THEN a ELSE b

VecLen(v) == Cardinality(DOMAIN v)

Vectors(S, n) == UNION {[0..(k - 1) -> S] : k \in 0..n}

\* --------------------------------------------------- exact quotients
RatZero == <<0, 1>>

RatLess(a, b) == a[1] * b[2] < b[1] * a[2]

RatEq(a, b) == a[1] * b[2] = b[1] * a[2]

\* ------------------------------------------------------ diff_function
\* The exclusive upper bound of j in the inner loop for lag tau (line 56); len
\* and m are usize, so the subtraction fails when len < m.
DiffWindowWithinPrefix(len, m, tau) == m - tau

DiffWindow(len, m, tau) == len - m

\* The inner loop for one tau: the sum over j in 0..w-1 of
\* (audio_sample[j] - audio_sample[j + tau])^2, accumulated from j = 0.
RECURSIVE DiffAcc(_, _, _)
DiffAcc(audio_sample, tau, w) ==
    IF w <= 0 THEN 0
    ELSE LET j == w - 1
             tmp == audio_sample[j] - audio_sample[j + tau]
         IN  DiffAcc(audio_sample, tau, j) + tmp * tmp

\* Whether diff_function fails: the usize subtraction underflows, or an index
\* into audio_sample or into the difference vector is out of bounds.
diff_function_panics(audio_sample, tau_max) ==
    LET len == VecLen(audio_sample)
        m == Min(len, tau_max)
    IN  \/ len < m
        \/ \E tau \in 1..(m - 1) :
              \E j \in 0..(DiffWindow(len, m, tau) - 1) :
                  \/ j \notin DOMAIN audio_sample
                  \/ (j + tau) \notin DOMAIN audio_sample
                  \/ tau \notin 0..(tau_max - 1)

diff_function(audio_sample, tau_max) ==
    LET len == VecLen(audio_sample)
        m == Min(len, tau_max)
    IN  [tau \in 0..(tau_max - 1) |->
            IF tau \in 1..(m - 1)
            THEN DiffAcc(audio_sample, tau, DiffWindow(len, m, tau))
            ELSE 0]

\* -------------------------------------------------------------- cmndf
\* running_sum after the iteration at index: raw_diff[1] + ... + raw_diff[index]
\* (enumerate().skip(1) never adds raw_diff[0]).
RECURSIVE RunningSum(_, _)
RunningSum(raw_diff, index) ==
    IF index <= 0 THEN 0
    ELSE RunningSum(raw_diff, index - 1) + raw_diff[index]

cmndf_value_no_index(raw_diff, index) ==
    IF RunningSum(raw_diff, index) = 0
    THEN RatZero
    ELSE <<raw_diff[index], RunningSum(raw_diff, index)>>

cmndf_value(raw_diff, index) ==
    IF RunningSum(raw_diff, index) = 0
    THEN RatZero
    ELSE <<raw_diff[index] * index, RunningSum(raw_diff, index)>>

\* The output starts as vec![0] and gets one push per index >= 1.
cmndf_len(raw_diff) == IF VecLen(raw_diff) = 0 THEN 1 ELSE VecLen(raw_diff)

cmndf(raw_diff) ==
    [index \in 0..(cmndf_len(raw_diff) - 1) |->
        IF index = 0 THEN RatZero ELSE cmndf_value(raw_diff, index)]

\* --------------------------------------------------- compute_diff_min
\* The result of a call that may fail on an index out of bounds.
Returned(tau) == [panic |-> FALSE, tau |-> tau]

Panicked == [panic |-> TRUE, tau |-> 0]

\* The inner while loop (lines 94-97).
RefineGuardNoBound(diff_fn, tau, max_tau) == TRUE

RefineGuard(diff_fn, tau, max_tau) == tau + 1 < max_tau

RefineDescendsOnTie(a, b) == RatLess(a, b) \/ RatEq(a, b)

RefineDescends(a, b) == RatLess(a, b)

RECURSIVE Refine(_, _, _)
Refine(diff_fn, tau, max_tau) ==
    IF RefineGuard(diff_fn, tau, max_tau)
    THEN IF (tau + 1) \notin DOMAIN diff_fn \/ tau \notin DOMAIN diff_fn
         THEN Panicked
         ELSE IF RefineDescends(diff_fn[tau + 1], diff_fn[tau])
              THEN Refine(diff_fn, tau + 1, max_tau)
              ELSE Returned(tau)
    ELSE Returned(tau)

\* The outer while loop (lines 92-100) from the given tau.
RECURSIVE Scan(_, _, _, _)
Scan(diff_fn, tau, max_tau, harm_threshold) ==
    IF tau < max_tau
    THEN IF tau \notin DOMAIN diff_fn
         THEN Panicked
         ELSE IF RatLess(diff_fn[tau], harm_threshold)
              THEN Refine(diff_fn, tau, max_tau)
              ELSE Scan(diff_fn, tau + 1, max_tau, harm_threshold)
    ELSE Returned(0)

compute_diff_min(diff_fn, min_tau, max_tau, harm_threshold) ==
    Scan(diff_fn, min_tau, max_tau, harm_threshold)

\* ----------------------------------------------- convert_to_frequency
Finite(num, den) == [kind |-> "finite", num |-> num, den |-> den]

Infinite == [kind |-> "inf", num |-> 1, den |-> 0]

NaN == [kind |-> "nan", num |-> 0, den |-> 0]

\* sample_rate_f / sample_period_f in IEEE arithmetic; from_usize never fails
\* for a float type.
convert_to_frequency_finite(sample_period, sample_rate) ==
    IF sample_period = 0
    THEN Finite(0, 1)
    ELSE Finite(sample_rate, sample_period)

convert_to_frequency(sample_period, sample_rate) ==
    IF sample_period = 0
    THEN IF sample_rate = 0 THEN NaN ELSE Infinite
    ELSE Finite(sample_rate, sample_period)

is_nan(f) == f.kind = "nan"

is_infinite(f) == f.kind = "inf"

\* ---------------------------------------------------------- Yin::init
\* Float::to_usize: truncation toward zero; None below -1 (the bounded
\* frequencies never reach the upper limit of usize).
to_usize(f) ==
    IF f[1] < 0
    THEN IF -f[1] >= f[2]
         THEN [some |-> FALSE, val |-> 0]
         ELSE [some |-> TRUE, val |-> 0]
    ELSE [some |-> TRUE, val |-> f[1] \div f[2]]

\* sample_rate / freq.to_usize().unwrap() fails on None and on division by zero.
tau_of_panics(rate, freq) == ~to_usize(freq).some \/ to_usize(freq).val = 0

tau_of(rate, freq) == rate \div to_usize(freq).val

\* ------------------------------------------------------------- state
VARIABLES
    pc,                \* position in init / estimate_freq
    threshold,         \* arguments of Yin::init
    freq_min,
    freq_max,
    sample_rate,
    audio_sample,      \* argument of estimate_freq
    yin,               \* the Yin struct (valid once pc # "init")
    diff_fn,           \* locals of compute_sample_frequency
    cmndf_diff,
    sample_period,
    sample_frequency,
    result             \* what estimate_freq returns

vars == <<pc, threshold, freq_min, freq_max, sample_rate, audio_sample, yin,
          diff_fn, cmndf_diff, sample_period, sample_frequency, result>>

NoYin == [threshold |-> RatZero, tau_max |-> 0, tau_min |-> 0, sample_rate |-> 0]

NoResult == [ok |-> FALSE, freq |-> NaN]

\* The buffer of tests::readme_doctest: odd indices 0, even indices +1, -1, ...
ReadmeExample ==
    [i \in 0..79 |-> IF i % 2 # 0 THEN 0 ELSE IF i % 4 = 0 THEN 1 ELSE -1]

InitLocals ==
    /\ pc = "init"
    /\ yin = NoYin
    /\ diff_fn = <<>>
    /\ cmndf_diff = <<>>
    /\ sample_period = 0
    /\ sample_frequency = NaN
    /\ result = NoResult

Init ==
    /\ InitLocals
    /\ \/ /\ threshold \in Thresholds
          /\ freq_min \in Freqs
          /\ freq_max \in Freqs
          /\ sample_rate \in SampleRates
          /\ audio_sample \in Vectors(Samples, MaxLen)
       \/ /\ threshold = <<1, 10>>
          /\ freq_min = <<10, 1>>
          /\ freq_max = <<30, 1>>
          /\ sample_rate = 80
          /\ audio_sample = ReadmeExample

\* Yin::init
YinInit ==
    /\ pc = "init"
    /\ IF tau_of_panics(sample_rate, freq_min) \/ tau_of_panics(sample_rate, freq_max)
       THEN /\ pc' = "init_panicked"
            /\ yin' = yin
       ELSE /\ pc' = "diff"
            /\ yin' = [threshold |-> threshold,
                       tau_max |-> tau_of(sample_rate, freq_min),
                       tau_min |-> tau_of(sample_rate, freq_max),
                       sample_rate |-> sample_rate]
    /\ UNCHANGED <<threshold, freq_min, freq_max, sample_rate, audio_sample,
                   diff_fn, cmndf_diff, sample_period, sample_frequency, result>>

\* compute_sample_frequency, line 125
DiffFunction ==
    /\ pc = "diff"
    /\ IF diff_function_panics(audio_sample, yin.tau_max)
       THEN /\ pc' = "panicked"
            /\ diff_fn' = diff_fn
       ELSE /\ pc' = "cmndf"
            /\ diff_fn' = diff_function(audio_sample, yin.tau_max)
    /\ UNCHANGED <<threshold, freq_min, freq_max, sample_rate, audio_sample, yin,
                   cmndf_diff, sample_period, sample_frequency, result>>

\* compute_sample_frequency, line 126
Cmndf ==
    /\ pc = "cmndf"
    /\ pc' = "search"
    /\ cmndf_diff' = cmndf(diff_fn)
    /\ UNCHANGED <<threshold, freq_min, freq_max, sample_rate, audio_sample, yin,
                   diff_fn, sample_period, sample_frequency, result>>

\* compute_sample_frequency, line 127
ComputeDiffMin ==
    /\ pc = "search"
    /\ LET r == compute_diff_min(cmndf_diff, yin.tau_min, yin.tau_max, yin.threshold)
       IN  IF r.panic
           THEN /\ pc' = "panicked"
                /\ sample_period' = sample_period
           ELSE /\ pc' = "convert"
                /\ sample_period' = r.tau
    /\ UNCHANGED <<threshold, freq_min, freq_max, sample_rate, audio_sample, yin,
                   diff_fn, cmndf_diff, sample_frequency, result>>

\* compute_sample_frequency, line 128
ConvertToFrequency ==
    /\ pc = "convert"
    /\ pc' = "return"
    /\ sample_frequency' = convert_to_frequency(sample_period, yin.sample_rate)
    /\ UNCHANGED <<threshold, freq_min, freq_max, sample_rate, audio_sample, yin,
                   diff_fn, cmndf_diff, sample_period, result>>

\* estimate_freq, lines 44-48
EstimateFreq ==
    /\ pc = "return"
    /\ pc' = "done"
    /\ result' = IF is_infinite(sample_frequency)
                 THEN [ok |-> FALSE, freq |-> sample_frequency]
                 ELSE [ok |-> TRUE, freq |-> sample_frequency]
    /\ UNCHANGED <<threshold, freq_min, freq_max, sample_rate, audio_sample, yin,
                   diff_fn, cmndf_diff, sample_period, sample_frequency>>

Next ==
    \/ YinInit
    \/ DiffFunction
    \/ Cmndf
    \/ ComputeDiffMin
    \/ ConvertToFrequency
    \/ EstimateFreq

Spec == Init /\ [][Next]_vars

\* ------------------------------------- stand-alone calls of the stages
\* cmndf on an arbitrary difference vector.
InitCmndf ==
    /\ pc = "cmndf"
    /\ threshold = RatZero
    /\ freq_min = RatZero
    /\ freq_max = RatZero
    /\ sample_rate = 0
    /\ audio_sample = <<>>
    /\ yin = NoYin
    /\ diff_fn \in Vectors(0..MaxDiff, MaxVec)
    /\ cmndf_diff = <<>>
    /\ sample_period = 0
    /\ sample_frequency = NaN
    /\ result = NoResult

NextCmndf == Cmndf

SpecCmndf == InitCmndf /\ [][NextCmndf]_vars

\* compute_diff_min on an arbitrary normalized vector, window and threshold.
InitSearch ==
    /\ pc = "search"
    /\ threshold = RatZero
    /\ freq_min = RatZero
    /\ freq_max = RatZero
    /\ sample_rate = 0
    /\ audio_sample = <<>>
    /\ \E thr \in Thresholds, lo \in 0..MaxVec, hi \in 0..(MaxVec + 1) :
          yin = [threshold |-> thr, tau_max |-> hi, tau_min |-> lo, sample_rate |-> 0]
    /\ diff_fn = <<>>
    /\ cmndf_diff \in Vectors(NormVals, MaxVec)
    /\ sample_period = 0
    /\ sample_frequency = NaN
    /\ result = NoResult

NextSearch == ComputeDiffMin

SpecSearch == InitSearch /\ [][NextSearch]_vars

\* ------------------------------------------------------------ claims
\* The estimator exists and estimate_freq has at least started.
Started == pc \in {"diff", "cmndf", "search", "convert", "return", "done"}

\* diff_function has returned.
AfterDiff == pc \in {"cmndf", "search", "convert", "return", "done"}

BufLen == VecLen(audio_sample)

EffectiveMax == Min(BufLen, yin.tau_max)

RECURSIVE SetSum(_, _)
SetSum(f, S) ==
    IF S = {} THEN 0
    ELSE LET k == CHOOSE k \in S : TRUE
         IN  f[k] + SetSum(f, S \ {k})

\* Sum over j in 0..n-1 of (x[j] - x[j+t])^2.
SqSum(x, t, n) ==
    SetSum([j \in 0..(n - 1) |-> (x[j] - x[j + t]) * (x[j] - x[j + t])], 0..(n - 1))

\* x[j + p] = x[j] for every in-range j.
Periodic(x, p) == \A j \in DOMAIN x : (j + p) \in DOMAIN x => x[j + p] = x[j]

\* The frequency f is the finite value num / den.
FreqIs(f, num, den) == f.kind = "finite" /\ f.den > 0 /\ f.num * den = num * f.den

PositiveThreshold == RatLess(RatZero, yin.threshold)

ReadmeConfig ==
    /\ threshold = <<1, 10>>
    /\ freq_min = <<10, 1>>
    /\ freq_max = <<30, 1>>
    /\ sample_rate = 80
    /\ audio_sample = ReadmeExample

\* C1 (as claimed): with threshold in (0, 1] and 1 <= tau_min < tau_max,
\* estimate_freq on an empty or all-zero buffer does not panic and returns
\* the UnknownPitch error, never Ok.
C1_ZeroBufferIsUnknownPitch ==
    (/\ Started
     /\ PositiveThreshold
     /\ ~RatLess(<<1, 1>>, yin.threshold)
     /\ 1 <= yin.tau_min
     /\ yin.tau_min < yin.tau_max
     /\ \A i \in DOMAIN audio_sample : audio_sample[i] = 0)
    => /\ pc # "panicked"
       /\ pc = "done" => ~result.ok

\* C2: with sample_rate >= 1, whenever the period search returns lag 0 the
\* converted frequency is infinite and estimate_freq returns the error; it
\* never returns Ok for a selected lag of 0.
C2_SentinelLagIsUnknownPitch ==
    (pc \in {"return", "done"} /\ yin.sample_rate >= 1 /\ sample_period = 0)
    => /\ sample_frequency.kind = "inf"
       /\ pc = "done" => ~result.ok

C2_Witness ==
    /\ pc = "done"
    /\ yin.sample_rate >= 1
    /\ sample_period = 0
    /\ 1 <= yin.tau_min
    /\ yin.tau_min < yin.tau_max
    /\ BufLen > yin.tau_max
    /\ ~result.ok

\* C3: the readme buffer with (0.1, 10, 30, 80) gives Ok(20) exactly; and for
\* any buffer exactly periodic with integer period p >= 1, tau_min <= p <
\* tau_max, threshold > 0 and every lag in [tau_min, p) with normalized
\* difference >= threshold, estimate_freq returns Ok(sample_rate / p).
C3_PeriodicBufferGivesItsPeriod ==
    /\ ReadmeConfig =>
          /\ pc \notin {"init_panicked", "panicked"}
          /\ pc = "done" => result.ok /\ FreqIs(result.freq, 20, 1)
    /\ pc = "done" =>
          \A p \in 1..(yin.tau_max - 1) :
              (/\ Periodic(audio_sample, p)
               /\ yin.tau_min <= p
               /\ PositiveThreshold
               /\ \A lag \in yin.tau_min..(p - 1) :
                      ~RatLess(cmndf_diff[lag], yin.threshold))
              => result.ok /\ FreqIs(result.freq, yin.sample_rate, p)

C3_Witness ==
    /\ pc = "done"
    /\ ~ReadmeConfig
    /\ BufLen > yin.tau_max
    /\ PositiveThreshold
    /\ yin.sample_rate >= 1
    /\ \E p \in 2..(yin.tau_max - 1) :
          /\ Periodic(audio_sample, p)
          /\ 1 <= yin.tau_min
          /\ yin.tau_min < p
          /\ \A lag \in yin.tau_min..(p - 1) :
                 /\ ~RatLess(cmndf_diff[lag], yin.threshold)
                 /\ diff_fn[lag] > 0
          /\ result.ok
          /\ FreqIs(result.freq, yin.sample_rate, p)

\* C4: for every buffer length (0 and below tau_max included) and every pair
\* of lag bounds, diff_function -> cmndf -> compute_diff_min ->
\* convert_to_frequency never indexes out of bounds and never underflows.
C4_PipelineNeverPanics == pc # "panicked"

C4_Witness ==
    /\ pc = "done"
    /\ yin.tau_max >= 2
    /\ BufLen > yin.tau_max
    /\ yin.tau_min < yin.tau_max
    /\ sample_period + 1 = yin.tau_max

\* C5 (as claimed): for freq_min > 0, freq_max > freq_min and sample_rate >= 1,
\* Yin::init completes without failing and stores 1 <= tau_min <= tau_max.
C5_InitStoresPositiveLagBounds ==
    (RatLess(RatZero, freq_min) /\ RatLess(freq_min, freq_max) /\ sample_rate >= 1)
    => /\ pc # "init_panicked"
       /\ Started => 1 <= yin.tau_min /\ yin.tau_min <= yin.tau_max

\* C6 (as claimed): d has length tau_max, d[0] = 0, d[t] is the sum over j from
\* 0 to effective_max - t - 1 of (x[j] - x[j+t])^2 for t in [1, effective_max),
\* and d[t] = 0 for t >= effective_max.
C6_DiffSumsWithinPrefix ==
    (AfterDiff /\ yin.tau_max >= 1)
    => /\ VecLen(diff_fn) = yin.tau_max
       /\ diff_fn[0] = 0
       /\ \A t \in 1..(EffectiveMax - 1) :
              diff_fn[t] = SqSum(audio_sample, t, EffectiveMax - t)
       /\ \A t \in EffectiveMax..(yin.tau_max - 1) : diff_fn[t] = 0

\* C6 (amended): as above, but d[t] is the sum over j from 0 to
\* N - effective_max - 1 of (x[j] - x[j+t])^2 for t in [1, effective_max).
C6_DiffSumsOverWindow ==
    (AfterDiff /\ yin.tau_max >= 1)
    => /\ VecLen(diff_fn) = yin.tau_max
       /\ diff_fn[0] = 0
       /\ \A t \in 1..(EffectiveMax - 1) :
              diff_fn[t] = SqSum(audio_sample, t, BufLen - EffectiveMax)
       /\ \A t \in EffectiveMax..(yin.tau_max - 1) : diff_fn[t] = 0

C6_Witness ==
    /\ AfterDiff
    /\ yin.tau_max >= 3
    /\ BufLen >= yin.tau_max + 2
    /\ \E t \in 1..(EffectiveMax - 1) :
          /\ diff_fn[t] > 0
          /\ diff_fn[t] # SqSum(audio_sample, t, EffectiveMax - t)

\* C7: for tau_min < tau_max <= len(v), compute_diff_min returns 0 iff no lag
\* in [tau_min, tau_max) is below threshold (given tau_min >= 1); otherwise
\* from the first such lag t0 it returns r >= t0 with v strictly decreasing on
\* t0..r and r + 1 = tau_max or v[r+1] >= v[r], so v[r] < threshold and
\* tau_min <= r < tau_max.
BelowAt(t) == RatLess(cmndf_diff[t], yin.threshold)

BelowLags == {t \in yin.tau_min..(yin.tau_max - 1) : BelowAt(t)}

FirstBelow == CHOOSE t \in BelowLags : \A u \in BelowLags : t <= u

C7_SearchReturnsFirstLocalMinimum ==
    (pc # "search" /\ yin.tau_min < yin.tau_max /\ yin.tau_max <= VecLen(cmndf_diff))
    => /\ pc = "convert"
       /\ yin.tau_min >= 1 => (sample_period = 0 <=> BelowLags = {})
       /\ BelowLags # {} =>
              /\ FirstBelow <= sample_period
              /\ sample_period < yin.tau_max
              /\ yin.tau_min <= sample_period
              /\ \A k \in FirstBelow..(sample_period - 1) :
                     RatLess(cmndf_diff[k + 1], cmndf_diff[k])
              /\ \/ sample_period + 1 = yin.tau_max
                 \/ ~RatLess(cmndf_diff[sample_period + 1], cmndf_diff[sample_period])
              /\ BelowAt(sample_period)

C7_Witness ==
    /\ pc = "convert"
    /\ 1 <= yin.tau_min
    /\ yin.tau_max <= VecLen(cmndf_diff)
    /\ BelowLags # {}
    /\ FirstBelow < sample_period
    /\ sample_period + 1 < yin.tau_max
    /\ RatEq(cmndf_diff[sample_period + 1], cmndf_diff[sample_period])

\* C8 (as claimed): for every d, of length 0 included, cmndf returns c of
\* identical length with c[0] = 0 and, for i >= 1 with S_i = d[1] + ... + d[i],
\* c[i] = 0 when S_i = 0 and c[i] = d[i] * i / S_i otherwise.
CmndfValuesAsClaimed ==
    /\ \A i \in DOMAIN cmndf_diff : cmndf_diff[i][2] > 0
    /\ cmndf_diff[0][1] = 0
    /\ \A i \in DOMAIN diff_fn \ {0} :
           LET S == SetSum(diff_fn, 1..i)
           IN  IF S = 0
               THEN cmndf_diff[i][1] = 0
               ELSE RatEq(cmndf_diff[i], <<diff_fn[i] * i, S>>)

C8_CmndfKeepsLength ==
    pc = "search"
    => /\ VecLen(cmndf_diff) = VecLen(diff_fn)
       /\ VecLen(diff_fn) >= 1 => CmndfValuesAsClaimed

\* C8 (amended): the same for every d of length >= 1; for d of length 0 cmndf
\* returns the one-element vector [0].
C8_CmndfKeepsLengthFromOne ==
    pc = "search"
    => /\ VecLen(diff_fn) >= 1 => VecLen(cmndf_diff) = VecLen(diff_fn)
       /\ VecLen(diff_fn) = 0 => VecLen(cmndf_diff) = 1
       /\ CmndfValuesAsClaimed

C8_Witness ==
    /\ pc = "search"
    /\ VecLen(diff_fn) >= 4
    /\ diff_fn[0] > 0
    /\ diff_fn[1] = 0
    /\ diff_fn[2] > 0
    /\ diff_fn[3] > 0
    /\ cmndf_diff[1][1] = 0
    /\ cmndf_diff[3][1] > 0

\* C9: for a buffer of length N <= tau_max, diff_function returns the all-zero
\* vector whatever the samples are, so for threshold > 0 and
\* 1 <= tau_min < tau_max estimate_freq returns Ok(sample_rate / tau_min).
C9_ShortBufferGivesTauMin ==
    /\ (AfterDiff /\ BufLen <= yin.tau_max)
       => \A t \in DOMAIN diff_fn : diff_fn[t] = 0
    /\ (/\ pc = "done"
        /\ BufLen <= yin.tau_max
        /\ PositiveThreshold
        /\ 1 <= yin.tau_min
        /\ yin.tau_min < yin.tau_max)
       => result.ok /\ FreqIs(result.freq, yin.sample_rate, yin.tau_min)

C9_Witness ==
    /\ pc = "done"
    /\ BufLen <= yin.tau_max
    /\ BufLen >= 3
    /\ \E i, j \in DOMAIN audio_sample : audio_sample[i] # audio_sample[j]
    /\ PositiveThreshold
    /\ 1 <= yin.tau_min
    /\ yin.tau_min < yin.tau_max
    /\ yin.sample_rate >= 1
    /\ result.ok

\* C10: with sample_rate >= 1, whenever estimate_freq returns Ok(f) there is a
\* lag t >= 1 with tau_min <= t < tau_max and f = sample_rate / t; so f is
\* finite, positive, at most sample_rate / tau_min and above
\* sample_rate / tau_max, and tau_min = 0 or tau_min >= tau_max never gives Ok.
C10_OkFrequencyComesFromLagInWindow ==
    (pc = "done" /\ yin.sample_rate >= 1 /\ result.ok)
    => /\ \E t \in 1..(yin.tau_max - 1) :
              yin.tau_min <= t /\ FreqIs(result.freq, yin.sample_rate, t)
       /\ result.freq.kind = "finite"
       /\ result.freq.num > 0 /\ result.freq.den > 0
       /\ yin.tau_min # 0
       /\ yin.tau_min < yin.tau_max
       /\ result.freq.num * yin.tau_min <= yin.sample_rate * result.freq.den
       /\ result.freq.num * yin.tau_max > yin.sample_rate * result.freq.den

C10_Witness ==
    /\ pc = "done"
    /\ yin.sample_rate >= 1
    /\ result.ok
    /\ BufLen > yin.tau_max
    /\ yin.tau_min < sample_period
    /\ \E t \in DOMAIN diff_fn : diff_fn[t] > 0

====
